---- MODULE Spec2Model ----
(***************************************************************************)
(* Model of the FreeRTOS cellular UDP demos:                               *)
(*   - the plaintext UDP transport adapter (using_plaintext_udp.c),        *)
(*   - the HL7802 UDP echo demo task (echoTask.c),                         *)
(*   - the BG96 transport-test thread wrapper (TransportTestExample.c).    *)
(* Three specifications share the variables: SpecEcho runs RunEchoTask,    *)
(* SpecTransport drives the adapter with arbitrary arguments, SpecThread   *)
(* interleaves FRTest_ThreadCreate / ThreadWrapper / FRTest_ThreadTimedJoin.*)
(***************************************************************************)
EXTENDS Integers, Sequences, FiniteSets, TLC

VARIABLES
    (* --- RunEchoTask / prvLoopSendAndReceive --- *)
    pc,              \* position of the echo task (or "harness" / "idle")
    sendBuf,         \* xEchoTestBuffer.sendBuf
    recvBuf,         \* xEchoTestBuffer.recvBuf
    size,            \* prvLoopSendAndReceive: size
    failCount,       \* prvLoopSendAndReceive: failCount (uint16_t)
    result,          \* prvLoopSendAndReceive: result
    status,          \* RunEchoTask: status
    report,          \* what the demo logged: "none", "Pass", "Failed"
    sentByte,        \* prvSendPackets: sentByte of the last send
    recvByte,        \* prvRecvPackets: recvByte of the last receive
    (* --- network context and sockets library --- *)
    pParams,         \* pNetworkContext->pParams # NULL
    socket,          \* pParams->socket
    xPlaintextStatus,\* last status returned by the adapter
    xNetStatus,      \* last result of a prvTransportNetworkConnect wrapper
    sockCalled,      \* the last adapter call reached the sockets library
    nUdpConnect,     \* number of Sockets_Udp_Connect calls
    nSockDisconnect, \* number of Sockets_Disconnect calls
    nDisconnect,     \* number of Plaintext_FreeRTOS_UDP_Disconnect calls
    xNetStatusBg96,  \* last result of the bg96 prvTransportNetworkConnect
    nCalls,          \* adapter calls made by the transport harness
    tArgs,           \* arguments of the last adapter call
    ioRet,           \* value returned by the last sendTo / recvFrom call
    nSockSend,       \* number of Sockets_Send calls
    nSockRecv,       \* number of Sockets_Recv calls
    (* --- observation of the echo run --- *)
    lastOp,          \* last call made: "none","connect","send","recv",...
    ioTick,          \* flips on every send or receive call
    sendsThisSize,   \* sends of the current size so far
    lastSentSize,    \* size of the last send (0: none yet)
    echoed,          \* sizes sent in full and echoed back byte-for-byte
    (* --- thread wrapper --- *)
    tp,              \* the TaskParam record
    cpc,             \* FRTest_ThreadCreate position
    wpc,             \* ThreadWrapper position
    jpc,             \* FRTest_ThreadTimedJoin position
    work,            \* steps of threadFunc left to run
    xReturned,       \* FRTest_ThreadTimedJoin: xReturned
    retValue,        \* FRTest_ThreadTimedJoin: retValue
    funcReturned,    \* threadFunc ran to completion
    freeCount,       \* number of free( pTaskParam ) calls
    uaf              \* a task touched the record after it was freed

echoVars == <<pc, sendBuf, recvBuf, size, failCount, result, status, report,
              sentByte, recvByte, lastOp, ioTick, sendsThisSize, lastSentSize,
              echoed>>
netVars == <<pParams, socket, xPlaintextStatus, xNetStatus, sockCalled,
             nUdpConnect, nSockDisconnect, nDisconnect, xNetStatusBg96, nCalls,
             tArgs>>
threadVars == <<tp, cpc, wpc, jpc, work, xReturned, retValue, funcReturned,
               freeCount, uaf>>
ioVars == <<ioRet, nSockSend, nSockRecv>>
vars == <<echoVars, netVars, threadVars, ioVars>>

----------------------------------------------------------------------------
(* Bounds and program constants *)

\* Stand-in for CELLULAR_MAX_SEND_DATA_LEN (defined outside the sources).
ECHO_BUFFER_MAX_SIZE == 12

ECHO_MAX_RETRY_COUNT == 10

\* First packet size of the echo loop.
ECHO_FIRST_SIZE == 10

\* Cap on adapter calls made by the transport harness.
MaxCalls == 3

\* Steps the worker's thread function takes before it returns.
MaxWork == 2

ByteMod == 256
U16Mod == 65536

----------------------------------------------------------------------------
(* Transport adapter: using_plaintext_udp.c *)

PLAINTEXT_TRANSPORT_SUCCESS == "SUCCESS"
PLAINTEXT_TRANSPORT_INVALID_PARAMETER == "INVALID_PARAMETER"
PLAINTEXT_TRANSPORT_CONNECT_FAILURE == "CONNECT_FAILURE"

TransportStatus == {PLAINTEXT_TRANSPORT_SUCCESS,
                    PLAINTEXT_TRANSPORT_INVALID_PARAMETER,
                    PLAINTEXT_TRANSPORT_CONNECT_FAILURE}

\* Socket handles: the zero-initialised handle, SOCKETS_INVALID_SOCKET and an
\* open socket.
SOCKETS_INVALID_SOCKET == "invalid"
ZeroSocket == "zero"
OpenSocket == "open"
SocketHandles == {ZeroSocket, SOCKETS_INVALID_SOCKET, OpenSocket}

\* Values Sockets_Udp_Connect may return (0 is success).
SocketStatusSet == {-2, -1, 0, 1}

\* Variant: the host name is not checked.
ConnectArgsInvalid_NoHostCheck(ctxNull, paramsNull, hostNull) ==
    ctxNull \/ paramsNull

\* The argument check of Plaintext_FreeRTOS_UDP_Connect.
ConnectArgsInvalid(ctxNull, paramsNull, hostNull) ==
    ctxNull \/ paramsNull \/ hostNull

\* "A non zero status is an error."
SocketStatusIsError(socketStatus) == socketStatus # 0

\* Plaintext_FreeRTOS_UDP_Connect: the status returned and whether
\* Sockets_Udp_Connect was called; socketStatus is what the library returns
\* when it is called.
Plaintext_FreeRTOS_UDP_Connect(ctxNull, paramsNull, hostNull, socketStatus) ==
    IF ConnectArgsInvalid(ctxNull, paramsNull, hostNull)
    THEN [status |-> PLAINTEXT_TRANSPORT_INVALID_PARAMETER, called |-> FALSE]
    ELSE IF SocketStatusIsError(socketStatus)
         THEN [status |-> PLAINTEXT_TRANSPORT_CONNECT_FAILURE, called |-> TRUE]
         ELSE [status |-> PLAINTEXT_TRANSPORT_SUCCESS, called |-> TRUE]

\* Handles Sockets_Udp_Connect may leave in *pSocket: an open socket on
\* success; on failure the library either leaves the handle or invalidates it.
SocketAfterConnect(old, socketStatus) ==
    IF socketStatus = 0 THEN {OpenSocket} ELSE {old, SOCKETS_INVALID_SOCKET}

\* prvTransportNetworkConnect (hl7802 echo demo): bool result.
prvTransportNetworkConnect_hl7802(plaintextStatus) ==
    plaintextStatus = PLAINTEXT_TRANSPORT_SUCCESS

NETWORK_CONNECT_SUCCESS == "NETWORK_CONNECT_SUCCESS"
NETWORK_CONNECT_FAILURE == "NETWORK_CONNECT_FAILURE"

\* prvTransportNetworkConnect (bg96 transport test demo).
prvTransportNetworkConnect_bg96(plaintextStatus) ==
    IF plaintextStatus = PLAINTEXT_TRANSPORT_SUCCESS
    THEN NETWORK_CONNECT_SUCCESS
    ELSE NETWORK_CONNECT_FAILURE

\* Variant: the stored socket is not compared with SOCKETS_INVALID_SOCKET.
Plaintext_FreeRTOS_UDP_Disconnect_NoSocketCheck(ctxNull, paramsNull, sock) ==
    IF ctxNull \/ paramsNull
    THEN [status |-> PLAINTEXT_TRANSPORT_INVALID_PARAMETER, called |-> FALSE]
    ELSE [status |-> PLAINTEXT_TRANSPORT_SUCCESS, called |-> TRUE]

\* Plaintext_FreeRTOS_UDP_Disconnect: status and whether Sockets_Disconnect
\* is called.
Plaintext_FreeRTOS_UDP_Disconnect(ctxNull, paramsNull, sock) ==
    IF ctxNull \/ paramsNull
    THEN [status |-> PLAINTEXT_TRANSPORT_INVALID_PARAMETER, called |-> FALSE]
    ELSE IF sock = SOCKETS_INVALID_SOCKET
         THEN [status |-> PLAINTEXT_TRANSPORT_INVALID_PARAMETER, called |-> FALSE]
         ELSE [status |-> PLAINTEXT_TRANSPORT_SUCCESS, called |-> TRUE]

\* Variant: a byte count of 0 is passed on to the sockets library.
TransferArgsInvalid_NoZeroCheck(ctxNull, paramsNull, bufNull, bytes) ==
    ctxNull \/ paramsNull \/ bufNull

\* The argument checks of Plaintext_FreeRTOS_recvFrom and
\* Plaintext_FreeRTOS_sendTo: context, pParams, buffer, byte count.
TransferArgsInvalid(ctxNull, paramsNull, bufNull, bytes) ==
    ctxNull \/ paramsNull \/ bufNull \/ bytes = 0

\* Plaintext_FreeRTOS_recvFrom: the value returned, whether Sockets_Recv was
\* called and on which socket; socketStatus is what Sockets_Recv returns.
Plaintext_FreeRTOS_recvFrom(ctxNull, paramsNull, sock, bufNull, bytes, socketStatus) ==
    IF TransferArgsInvalid(ctxNull, paramsNull, bufNull, bytes)
    THEN [ret |-> -1, called |-> FALSE, sock |-> "none"]
    ELSE [ret |-> socketStatus, called |-> TRUE, sock |-> sock]

\* Plaintext_FreeRTOS_sendTo: likewise for Sockets_Send.
Plaintext_FreeRTOS_sendTo(ctxNull, paramsNull, sock, bufNull, bytes, socketStatus) ==
    IF TransferArgsInvalid(ctxNull, paramsNull, bufNull, bytes)
    THEN [ret |-> -1, called |-> FALSE, sock |-> "none"]
    ELSE [ret |-> socketStatus, called |-> TRUE, sock |-> sock]

\* Byte counts the harness asks for, and what the sockets library may return
\* for a request: an error code, nothing, or up to the bytes asked for.
TransferSizes == {0, 1, 2}
TransferReturns(bytes) == {-2, -1} \cup 0..bytes

----------------------------------------------------------------------------
(* Echo demo: echoTask.c *)

BufIndex == 1..ECHO_BUFFER_MAX_SIZE

\* prvInitializeTestData: buffer[i] = (uint8_t) i, 0-based.
prvInitializeTestData(testSize) ==
    [i \in 1..testSize |-> (i - 1) % ByteMod]

ZeroBuf == [i \in BufIndex |-> 0]

\* memset( recvBuf, 0, sizeof( recvBuf ) )
MemsetRecvBuf(buf) == [i \in DOMAIN buf |-> 0]

\* Variant: the last byte is not compared.
MemcmpEqual_OffByOne(a, b, n) == \A i \in 1..(n - 1) : a[i] = b[i]

\* memcmp( a, b, n ) == 0
MemcmpEqual(a, b, n) == \A i \in 1..n : a[i] = b[i]

\* Variant: any non-negative count is taken as a complete send.
prvSendPackets_AnyCount(sent, sz) == sent >= 0

\* prvSendPackets: sentByte == size. sentByte is int32_t and size is size_t:
\* a negative sentByte converts to a huge unsigned value, never a packet size.
prvSendPackets(sent, sz) == sent >= 0 /\ sent = sz

\* Sockets_Recv stores the n bytes of the datagram at the start of the buffer.
StoreDatagram(buf, data, n) ==
    [i \in DOMAIN buf |-> IF i <= n THEN data[i] ELSE buf[i]]

\* Datagrams of n bytes that may arrive: the echo of what was sent, or the
\* echo with its first or its last byte damaged.
Damage(data, k) == [data EXCEPT ![k] = (data[k] + 1) % ByteMod]
Datagrams(n) ==
    LET echo == [i \in 1..n |-> sendBuf[i]]
    IN  {echo} \cup {Damage(echo, k) : k \in {1, n}}

\* Byte counts Sockets_Send may return for a request of sz bytes.
SendReturns(sz) == {-1, 0, sz - 1, sz}

\* Byte counts Sockets_Recv may return for a request of sz bytes: an error,
\* nothing, a short datagram, the full datagram.
RecvReturns(sz) == {-1, 0, 1, sz - 1, sz}

\* failCount++ on a uint16_t.
IncFailCount(fc) == (fc + 1) % U16Mod

\* Variant: one more retry is allowed.
RetryExceeded_OneMore(fc) == fc > ECHO_MAX_RETRY_COUNT + 1

\* failCount > ECHO_MAX_RETRY_COUNT
RetryExceeded(fc) == fc > ECHO_MAX_RETRY_COUNT

\* Variant: the loop stops one size early.
LoopContinues_Strict(sz) == sz < ECHO_BUFFER_MAX_SIZE

\* The for-loop condition size <= ECHO_BUFFER_MAX_SIZE.
LoopContinues(sz) == sz <= ECHO_BUFFER_MAX_SIZE

\* Variant: a zero-length receive is received again instead of failing.
RecvAgain_OnZero(n) == n >= 0

\* prvRecvPackets: while( recvByte > 0 ).
RecvAgain(n) == n > 0

\* Variant: the report does not look at the status.
DemoReport_AlwaysPass(st) == "Pass"

\* RunEchoTask lines 323-330: the line logged.
DemoReport(st) == IF ~st THEN "Failed" ELSE "Pass"

echoNetUnchanged == UNCHANGED <<netVars, threadVars, ioVars>>

\* RunEchoTask lines 303-312: the context and both buffers are initialised.
RunEchoTask_Begin ==
    /\ pc = "start"
    /\ pParams' = TRUE
    /\ socket' = ZeroSocket
    /\ sendBuf' = prvInitializeTestData(ECHO_BUFFER_MAX_SIZE)
    /\ recvBuf' = prvInitializeTestData(ECHO_BUFFER_MAX_SIZE)
    /\ status' = FALSE
    /\ pc' = "connect"
    /\ UNCHANGED <<size, failCount, result, report, sentByte, recvByte, lastOp,
                   ioTick, sendsThisSize, lastSentSize, echoed>>
    /\ UNCHANGED <<xPlaintextStatus, xNetStatus, sockCalled, nUdpConnect,
                   nSockDisconnect, nDisconnect, xNetStatusBg96, nCalls, tArgs>>
    /\ UNCHANGED <<threadVars, ioVars>>

\* RunEchoTask line 315 and, on success, entry to prvLoopSendAndReceive.
Echo_Connect ==
    /\ pc = "connect"
    /\ \E socketStatus \in SocketStatusSet :
         LET r == Plaintext_FreeRTOS_UDP_Connect(FALSE, ~pParams, FALSE, socketStatus)
             ok == prvTransportNetworkConnect_hl7802(r.status)
         IN  /\ xPlaintextStatus' = r.status
             /\ xNetStatus' = ok
             /\ sockCalled' = r.called
             /\ nUdpConnect' = IF r.called THEN nUdpConnect + 1 ELSE nUdpConnect
             /\ \E s \in (IF r.called THEN SocketAfterConnect(socket, socketStatus)
                                      ELSE {socket}) : socket' = s
             /\ tArgs' = [op |-> "connect", ctxNull |-> FALSE, hostNull |-> FALSE,
                          ret |-> socketStatus]
             /\ IF ok
                THEN /\ size' = ECHO_FIRST_SIZE
                     /\ failCount' = 0
                     /\ result' = TRUE
                     /\ IF LoopContinues(ECHO_FIRST_SIZE)
                        THEN pc' = "send" /\ status' = ok
                        ELSE pc' = "report" /\ status' = TRUE
                ELSE /\ status' = ok
                     /\ pc' = "report"
                     /\ UNCHANGED <<size, failCount, result>>
    /\ lastOp' = "connect"
    /\ UNCHANGED <<sendBuf, recvBuf, report, sentByte, recvByte, ioTick,
                   sendsThisSize, lastSentSize, echoed>>
    /\ UNCHANGED <<pParams, nSockDisconnect, nDisconnect, xNetStatusBg96, nCalls>>
    /\ UNCHANGED <<threadVars, ioVars>>

\* prvLoopSendAndReceive lines 250-257: one prvSendPackets call.
Echo_Send ==
    /\ pc = "send"
    /\ \E sent \in SendReturns(size) :
         /\ sentByte' = sent
         /\ IF prvSendPackets(sent, size)
            THEN /\ pc' = "recv"
                 /\ UNCHANGED <<result, status>>
            ELSE /\ result' = FALSE
                 /\ status' = FALSE
                 /\ pc' = "report"
    /\ lastOp' = "send"
    /\ ioTick' = ~ioTick
    /\ sendsThisSize' = IF lastSentSize = size THEN sendsThisSize + 1 ELSE 1
    /\ lastSentSize' = size
    /\ UNCHANGED <<sendBuf, recvBuf, size, failCount, report, recvByte, echoed>>
    /\ echoNetUnchanged

\* One Plaintext_FreeRTOS_recvFrom call of prvRecvPackets (lines 221-230) and,
\* when prvRecvPackets returns, the rest of the loop body (lines 263-290).
Echo_Recv ==
    /\ pc = "recv"
    /\ \E n \in RecvReturns(size) :
       \E data \in (IF n > 0 THEN Datagrams(n) ELSE {<<>>}) :
         LET got == IF n > 0 THEN StoreDatagram(recvBuf, data, n) ELSE recvBuf
         IN
         /\ recvByte' = n
         /\ IF n = size
            THEN \* prvRecvPackets returns true
                 IF MemcmpEqual(sendBuf, got, size)
                 THEN /\ failCount' = 0
                      /\ size' = size + 1
                      /\ recvBuf' = MemsetRecvBuf(got)
                      /\ result' = result
                      /\ IF LoopContinues(size + 1)
                         THEN pc' = "send" /\ status' = status
                         ELSE pc' = "report" /\ status' = result
                 ELSE /\ result' = FALSE
                      /\ status' = FALSE
                      /\ recvBuf' = got
                      /\ pc' = "report"
                      /\ UNCHANGED <<failCount, size>>
            ELSE IF RecvAgain(n)
            THEN \* while( recvByte > 0 ): receive again
                 /\ recvBuf' = got
                 /\ pc' = "recv"
                 /\ UNCHANGED <<failCount, size, result, status>>
            ELSE \* prvRecvPackets returns false
                 /\ failCount' = IncFailCount(failCount)
                 /\ size' = size
                 /\ IF RetryExceeded(IncFailCount(failCount))
                    THEN /\ result' = FALSE
                         /\ status' = FALSE
                         /\ recvBuf' = got
                         /\ pc' = "report"
                    ELSE /\ recvBuf' = MemsetRecvBuf(got)
                         /\ pc' = "send"
                         /\ UNCHANGED <<result, status>>
         /\ echoed' = IF n = size /\ sentByte = size
                         /\ data = [i \in 1..size |-> sendBuf[i]]
                      THEN echoed \cup {size} ELSE echoed
    /\ lastOp' = "recv"
    /\ ioTick' = ~ioTick
    /\ UNCHANGED <<sendBuf, report, sentByte, sendsThisSize, lastSentSize>>
    /\ echoNetUnchanged

\* RunEchoTask lines 323-330.
Echo_Report ==
    /\ pc = "report"
    /\ report' = DemoReport(status)
    /\ pc' = "disconnect"
    /\ UNCHANGED <<sendBuf, recvBuf, size, failCount, result, status, sentByte,
                   recvByte, lastOp, ioTick, sendsThisSize, lastSentSize, echoed>>
    /\ echoNetUnchanged

\* RunEchoTask line 333: prvTransportNetworkDisconnect.
Echo_Disconnect ==
    /\ pc = "disconnect"
    /\ LET r == Plaintext_FreeRTOS_UDP_Disconnect(FALSE, ~pParams, socket)
       IN  /\ xPlaintextStatus' = r.status
           /\ sockCalled' = r.called
           /\ nSockDisconnect' = IF r.called THEN nSockDisconnect + 1
                                 ELSE nSockDisconnect
           /\ tArgs' = [op |-> "disconnect", ctxNull |-> FALSE,
                        hostNull |-> FALSE, ret |-> 0,
                        sock |-> IF r.called THEN socket ELSE "none"]
    /\ nDisconnect' = nDisconnect + 1
    /\ lastOp' = "disconnect"
    /\ pc' = "delete"
    /\ UNCHANGED <<sendBuf, recvBuf, size, failCount, result, status, report,
                   sentByte, recvByte, ioTick, sendsThisSize, lastSentSize, echoed>>
    /\ UNCHANGED <<pParams, socket, xNetStatus, nUdpConnect, xNetStatusBg96,
                   nCalls>>
    /\ UNCHANGED <<threadVars, ioVars>>

\* RunEchoTask line 336: vTaskDelete( NULL ).
Echo_TaskDelete ==
    /\ pc = "delete"
    /\ pc' = "deleted"
    /\ lastOp' = "delete"
    /\ UNCHANGED <<sendBuf, recvBuf, size, failCount, result, status, report,
                   sentByte, recvByte, ioTick, sendsThisSize, lastSentSize, echoed>>
    /\ echoNetUnchanged

----------------------------------------------------------------------------
(* Transport harness: the adapter called with arbitrary arguments, directly   *)
(* and through the two prvTransportNetworkConnect wrappers.                   *)

\* One Plaintext_FreeRTOS_UDP_Connect call and its effect on the context and
\* on the sockets library.
AdapterConnect(op, ctxNull, hostNull, socketStatus) ==
    LET r == Plaintext_FreeRTOS_UDP_Connect(ctxNull, ~pParams, hostNull, socketStatus)
    IN  /\ xPlaintextStatus' = r.status
        /\ sockCalled' = r.called
        /\ nUdpConnect' = IF r.called THEN nUdpConnect + 1 ELSE nUdpConnect
        /\ \E s \in (IF r.called THEN SocketAfterConnect(socket, socketStatus)
                                 ELSE {socket}) : socket' = s
        /\ tArgs' = [op |-> op, ctxNull |-> ctxNull, hostNull |-> hostNull,
                     ret |-> socketStatus]
        /\ nCalls' = nCalls + 1

harnessUnchanged == UNCHANGED <<echoVars, threadVars, pParams>>

\* The connect and disconnect calls send and receive nothing.
connUnchanged == UNCHANGED ioVars

\* Plaintext_FreeRTOS_UDP_Connect called directly.
T_Connect ==
    /\ pc = "harness" /\ nCalls < MaxCalls
    /\ \E ctxNull \in BOOLEAN, hostNull \in BOOLEAN, socketStatus \in SocketStatusSet :
         AdapterConnect("connect", ctxNull, hostNull, socketStatus)
    /\ UNCHANGED <<xNetStatus, xNetStatusBg96, nSockDisconnect, nDisconnect>>
    /\ harnessUnchanged /\ connUnchanged

\* prvTransportNetworkConnect of the bg96 transport test demo; pHostInfo is
\* non-NULL, pHostInfo->pHostName may be NULL.
T_Connect_bg96 ==
    /\ pc = "harness" /\ nCalls < MaxCalls
    /\ \E ctxNull \in BOOLEAN, hostNull \in BOOLEAN, socketStatus \in SocketStatusSet :
         /\ AdapterConnect("connect_bg96", ctxNull, hostNull, socketStatus)
         /\ xNetStatusBg96' = prvTransportNetworkConnect_bg96(
                Plaintext_FreeRTOS_UDP_Connect(ctxNull, ~pParams, hostNull,
                                               socketStatus).status)
    /\ UNCHANGED <<xNetStatus, nSockDisconnect, nDisconnect>>
    /\ harnessUnchanged /\ connUnchanged

\* prvTransportNetworkConnect of the hl7802 echo demo; the host name is the
\* ECHO_SERVER_ENDPOINT literal.
T_Connect_hl7802 ==
    /\ pc = "harness" /\ nCalls < MaxCalls
    /\ \E ctxNull \in BOOLEAN, socketStatus \in SocketStatusSet :
         /\ AdapterConnect("connect_hl7802", ctxNull, FALSE, socketStatus)
         /\ xNetStatus' = prvTransportNetworkConnect_hl7802(
                Plaintext_FreeRTOS_UDP_Connect(ctxNull, ~pParams, FALSE,
                                               socketStatus).status)
    /\ UNCHANGED <<xNetStatusBg96, nSockDisconnect, nDisconnect>>
    /\ harnessUnchanged /\ connUnchanged

\* Plaintext_FreeRTOS_UDP_Disconnect called through prvTransportNetworkDisconnect.
T_Disconnect ==
    /\ pc = "harness" /\ nCalls < MaxCalls
    /\ \E ctxNull \in BOOLEAN :
         LET r == Plaintext_FreeRTOS_UDP_Disconnect(ctxNull, ~pParams, socket)
         IN  /\ xPlaintextStatus' = r.status
             /\ sockCalled' = r.called
             /\ nSockDisconnect' = IF r.called THEN nSockDisconnect + 1
                                   ELSE nSockDisconnect
             /\ tArgs' = [op |-> "disconnect", ctxNull |-> ctxNull,
                          hostNull |-> FALSE, ret |-> 0,
                          sock |-> IF r.called THEN socket ELSE "none"]
    /\ nDisconnect' = nDisconnect + 1
    /\ nCalls' = nCalls + 1
    /\ UNCHANGED <<socket, xNetStatus, xNetStatusBg96, nUdpConnect>>
    /\ harnessUnchanged /\ connUnchanged

\* Plaintext_FreeRTOS_sendTo called through xTransport.send.
T_SendTo ==
    /\ pc = "harness" /\ nCalls < MaxCalls
    /\ \E ctxNull \in BOOLEAN, bufNull \in BOOLEAN, bytes \in TransferSizes :
       \E socketStatus \in TransferReturns(bytes) :
         LET r == Plaintext_FreeRTOS_sendTo(ctxNull, ~pParams, socket, bufNull,
                                            bytes, socketStatus)
         IN  /\ ioRet' = r.ret
             /\ sockCalled' = r.called
             /\ nSockSend' = IF r.called THEN nSockSend + 1 ELSE nSockSend
             /\ tArgs' = [op |-> "sendTo", ctxNull |-> ctxNull, hostNull |-> FALSE,
                          ret |-> socketStatus, bufNull |-> bufNull,
                          bytes |-> bytes, sock |-> r.sock]
    /\ nCalls' = nCalls + 1
    /\ UNCHANGED <<socket, xPlaintextStatus, xNetStatus, xNetStatusBg96,
                   nUdpConnect, nSockDisconnect, nDisconnect, nSockRecv>>
    /\ harnessUnchanged

\* Plaintext_FreeRTOS_recvFrom called through xTransport.recv.
T_RecvFrom ==
    /\ pc = "harness" /\ nCalls < MaxCalls
    /\ \E ctxNull \in BOOLEAN, bufNull \in BOOLEAN, bytes \in TransferSizes :
       \E socketStatus \in TransferReturns(bytes) :
         LET r == Plaintext_FreeRTOS_recvFrom(ctxNull, ~pParams, socket, bufNull,
                                              bytes, socketStatus)
         IN  /\ ioRet' = r.ret
             /\ sockCalled' = r.called
             /\ nSockRecv' = IF r.called THEN nSockRecv + 1 ELSE nSockRecv
             /\ tArgs' = [op |-> "recvFrom", ctxNull |-> ctxNull, hostNull |-> FALSE,
                          ret |-> socketStatus, bufNull |-> bufNull,
                          bytes |-> bytes, sock |-> r.sock]
    /\ nCalls' = nCalls + 1
    /\ UNCHANGED <<socket, xPlaintextStatus, xNetStatus, xNetStatusBg96,
                   nUdpConnect, nSockDisconnect, nDisconnect, nSockSend>>
    /\ harnessUnchanged

----------------------------------------------------------------------------
(* Thread wrapper: TransportTestExample.c *)

pdTRUE == "pdTRUE"
pdFALSE == "pdFALSE"

\* Variant: the timeout is not reported.
JoinRetValue_AlwaysZero(xRet) == 0

\* FRTest_ThreadTimedJoin lines 158-173: retValue from xReturned.
JoinRetValue(xRet) == IF xRet # pdTRUE THEN -1 ELSE 0

\* ThreadWrapper line 109 (joinMutexHandle is non-NULL once created).
WrapperRuns(rec) == rec.threadFunc # "NULL"

\* A task touches the TaskParam record.
Touch == uaf' = (uaf \/ tp.state = "freed")

threadOther == UNCHANGED <<echoVars, netVars, ioVars>>

\* FRTest_ThreadCreate: malloc, semaphore (created empty), fields, xTaskCreate.
\* A failed configASSERT stops the caller; with assertions compiled out a
\* failed xTaskCreate is ignored and the handle is returned all the same.
FRTest_ThreadCreate ==
    /\ cpc = "idle"
    /\ \E f \in {"NULL", "func"}, p \in {0, 1}, mallocOk \in BOOLEAN,
          created \in BOOLEAN, assertStops \in BOOLEAN :
         IF ~mallocOk
         THEN /\ cpc' = "asserted"
              /\ UNCHANGED <<tp, wpc>>
         ELSE /\ tp' = [state |-> "live", threadFunc |-> f, pParam |-> p, sem |-> 0]
              /\ wpc' = IF created THEN "start" ELSE "none"
              /\ cpc' = IF ~created /\ assertStops THEN "asserted" ELSE "done"
    /\ UNCHANGED <<jpc, work, xReturned, retValue, funcReturned, freeCount, uaf>>
    /\ threadOther

\* ThreadWrapper line 109: reads threadFunc and joinMutexHandle. A read of
\* the freed record yields any value.
W_Check ==
    /\ wpc = "start"
    /\ Touch
    /\ \E runs \in (IF tp.state = "freed" THEN BOOLEAN ELSE {WrapperRuns(tp)}) :
         wpc' = IF runs THEN "call" ELSE "delete"
    /\ UNCHANGED <<tp, cpc, jpc, work, xReturned, retValue, funcReturned, freeCount>>
    /\ threadOther

\* ThreadWrapper line 111: reads threadFunc and pParam, enters threadFunc.
W_Call ==
    /\ wpc = "call"
    /\ Touch
    /\ wpc' = "running"
    /\ work' = MaxWork
    /\ UNCHANGED <<tp, cpc, jpc, xReturned, retValue, funcReturned, freeCount>>
    /\ threadOther

\* threadFunc makes a step.
W_Run ==
    /\ wpc = "running" /\ work > 0
    /\ work' = work - 1
    /\ UNCHANGED <<tp, cpc, wpc, jpc, xReturned, retValue, funcReturned, freeCount, uaf>>
    /\ threadOther

\* threadFunc returns.
W_Return ==
    /\ wpc = "running" /\ work = 0
    /\ funcReturned' = TRUE
    /\ wpc' = "give"
    /\ UNCHANGED <<tp, cpc, jpc, work, xReturned, retValue, freeCount, uaf>>
    /\ threadOther

\* ThreadWrapper line 114: xSemaphoreGive( pTaskParam->joinMutexHandle ); the
\* semaphore's storage is the record's joinMutexBuffer.
W_Give ==
    /\ wpc = "give"
    /\ Touch
    /\ tp' = [tp EXCEPT !.sem = 1]
    /\ wpc' = "delete"
    /\ UNCHANGED <<cpc, jpc, work, xReturned, retValue, funcReturned, freeCount>>
    /\ threadOther

\* ThreadWrapper line 117: vTaskDelete( NULL ).
W_Delete ==
    /\ wpc = "delete"
    /\ wpc' = "deleted"
    /\ UNCHANGED <<tp, cpc, jpc, work, xReturned, retValue, funcReturned, freeCount, uaf>>
    /\ threadOther

\* FRTest_ThreadTimedJoin lines 156-165: the call, up to the semaphore wait.
J_Call ==
    /\ cpc = "done" /\ jpc = "idle"
    /\ Touch
    /\ jpc' = "wait"
    /\ UNCHANGED <<tp, cpc, wpc, work, xReturned, retValue, funcReturned, freeCount>>
    /\ threadOther

\* xSemaphoreTake succeeds: the semaphore was given.
J_Take ==
    /\ jpc = "wait" /\ tp.sem = 1
    /\ Touch
    /\ tp' = [tp EXCEPT !.sem = 0]
    /\ xReturned' = pdTRUE
    /\ retValue' = JoinRetValue(pdTRUE)
    /\ jpc' = "free"
    /\ UNCHANGED <<cpc, wpc, work, funcReturned, freeCount>>
    /\ threadOther

\* xSemaphoreTake times out; configASSERT( FALSE ) stops the task or, with
\* assertions compiled out, lets it go on to free the record.
J_Timeout ==
    /\ jpc = "wait" /\ tp.sem = 0
    /\ Touch
    /\ xReturned' = pdFALSE
    /\ retValue' = JoinRetValue(pdFALSE)
    /\ \E assertStops \in BOOLEAN :
         jpc' = IF assertStops THEN "asserted" ELSE "free"
    /\ UNCHANGED <<tp, cpc, wpc, work, funcReturned, freeCount>>
    /\ threadOther

\* FRTest_ThreadTimedJoin line 178: free( pTaskParam ).
J_Free ==
    /\ jpc = "free"
    /\ tp' = [tp EXCEPT !.state = "freed"]
    /\ freeCount' = freeCount + 1
    /\ jpc' = "return"
    /\ UNCHANGED <<cpc, wpc, work, xReturned, retValue, funcReturned, uaf>>
    /\ threadOther

\* FRTest_ThreadTimedJoin line 180: return retValue.
J_Return ==
    /\ jpc = "return"
    /\ jpc' = "returned"
    /\ UNCHANGED <<tp, cpc, wpc, work, xReturned, retValue, funcReturned, freeCount, uaf>>
    /\ threadOther

----------------------------------------------------------------------------
(* Initial states *)

EchoIdle ==
    /\ sendBuf = ZeroBuf
    /\ recvBuf = ZeroBuf
    /\ size = 1
    /\ failCount = 0
    /\ result = TRUE
    /\ status = FALSE
    /\ report = "none"
    /\ sentByte = 0
    /\ recvByte = 0
    /\ lastOp = "none"
    /\ ioTick = FALSE
    /\ sendsThisSize = 0
    /\ lastSentSize = 0
    /\ echoed = {}

NetIdle ==
    /\ socket = ZeroSocket
    /\ xPlaintextStatus = PLAINTEXT_TRANSPORT_SUCCESS
    /\ xNetStatus = FALSE
    /\ sockCalled = FALSE
    /\ nUdpConnect = 0
    /\ nSockDisconnect = 0
    /\ nDisconnect = 0
    /\ xNetStatusBg96 = NETWORK_CONNECT_FAILURE
    /\ nCalls = 0
    /\ ioRet = 0
    /\ nSockSend = 0
    /\ nSockRecv = 0
    /\ tArgs = [op |-> "none", ctxNull |-> FALSE, hostNull |-> FALSE, ret |-> 0]

ThreadIdle ==
    /\ tp = [state |-> "none", threadFunc |-> "NULL", pParam |-> 0, sem |-> 0]
    /\ cpc = "idle"
    /\ wpc = "none"
    /\ jpc = "idle"
    /\ work = 0
    /\ xReturned = "none"
    /\ retValue = 0
    /\ funcReturned = FALSE
    /\ freeCount = 0
    /\ uaf = FALSE

\* The echo task has been created and not yet run; xEchoTestBuffer is a
\* zero-initialised global.
InitEcho ==
    /\ pc = "start"
    /\ pParams = FALSE
    /\ EchoIdle /\ NetIdle /\ ThreadIdle

NextEcho ==
    \/ RunEchoTask_Begin
    \/ Echo_Connect
    \/ Echo_Send
    \/ Echo_Recv
    \/ Echo_Report
    \/ Echo_Disconnect
    \/ Echo_TaskDelete

SpecEcho == InitEcho /\ [][NextEcho]_vars

\* The echo task keeps being scheduled and every sockets-library call it
\* makes returns: a step of the task that is possible is eventually taken.
SpecEchoFair == InitEcho /\ [][NextEcho]_vars /\ WF_vars(NextEcho)

\* The transport test's global context, before or after
\* SetupTransportTestParam stored its pParams.
InitTransport ==
    /\ pc = "harness"
    /\ pParams \in BOOLEAN
    /\ EchoIdle /\ NetIdle /\ ThreadIdle

NextTransport ==
    \/ T_Connect
    \/ T_Connect_bg96
    \/ T_Connect_hl7802
    \/ T_Disconnect
    \/ T_SendTo
    \/ T_RecvFrom

SpecTransport == InitTransport /\ [][NextTransport]_vars

InitThread ==
    /\ pc = "idle"
    /\ pParams = FALSE
    /\ EchoIdle /\ NetIdle /\ ThreadIdle

NextThread ==
    \/ FRTest_ThreadCreate
    \/ W_Check
    \/ W_Call
    \/ W_Run
    \/ W_Return
    \/ W_Give
    \/ W_Delete
    \/ J_Call
    \/ J_Take
    \/ J_Timeout
    \/ J_Free
    \/ J_Return

SpecThread == InitThread /\ [][NextThread]_vars

----------------------------------------------------------------------------
(* Properties *)

ConnectOps == {"connect", "connect_bg96", "connect_hl7802"}
SendStep == lastOp' = "send" /\ ioTick' # ioTick
RecvStep == lastOp' = "recv" /\ ioTick' # ioTick
AfterLoop == pc \in {"report", "disconnect", "delete", "deleted"}
AllSizes == ECHO_FIRST_SIZE..ECHO_BUFFER_MAX_SIZE
InLoop == pc \in {"send", "recv"}

\* C1: Plaintext_FreeRTOS_UDP_Connect returns INVALID_PARAMETER, without
\* calling Sockets_Udp_Connect, when the context, its pParams or the host
\* name is NULL; otherwise CONNECT_FAILURE when Sockets_Udp_Connect returns
\* non-zero; otherwise SUCCESS. Each prvTransportNetworkConnect wrapper
\* reports success exactly when the adapter returned SUCCESS.
C1_ConnectStatus ==
    tArgs.op \in ConnectOps =>
        /\ xPlaintextStatus \in TransportStatus
        /\ IF tArgs.ctxNull \/ ~pParams \/ tArgs.hostNull
           THEN /\ xPlaintextStatus = PLAINTEXT_TRANSPORT_INVALID_PARAMETER
                /\ ~sockCalled
           ELSE /\ sockCalled
                /\ xPlaintextStatus = IF tArgs.ret # 0
                                      THEN PLAINTEXT_TRANSPORT_CONNECT_FAILURE
                                      ELSE PLAINTEXT_TRANSPORT_SUCCESS
        /\ tArgs.op = "connect_bg96" =>
              (xNetStatusBg96 = NETWORK_CONNECT_SUCCESS
                  <=> xPlaintextStatus = PLAINTEXT_TRANSPORT_SUCCESS)
        /\ tArgs.op = "connect_hl7802" =>
              (xNetStatus <=> xPlaintextStatus = PLAINTEXT_TRANSPORT_SUCCESS)

\* A NULL host name passed through the bg96 wrapper with a valid context.
C1_Witness ==
    /\ tArgs.op = "connect_bg96" /\ tArgs.hostNull /\ ~tArgs.ctxNull /\ pParams
    /\ xPlaintextStatus = PLAINTEXT_TRANSPORT_INVALID_PARAMETER
    /\ xNetStatusBg96 = NETWORK_CONNECT_FAILURE
    /\ nUdpConnect = 0

C3_RetryBounded ==
    /\ [](/\ sendsThisSize <= ECHO_MAX_RETRY_COUNT + 1
          /\ failCount <= ECHO_MAX_RETRY_COUNT + 1
          /\ failCount > ECHO_MAX_RETRY_COUNT => (AfterLoop /\ ~result /\ ~status))
    /\ [][failCount > ECHO_MAX_RETRY_COUNT => ioTick' = ioTick]_vars

\* The retries of one size are used up.
C3_Witness ==
    /\ failCount = ECHO_MAX_RETRY_COUNT + 1
    /\ sendsThisSize = ECHO_MAX_RETRY_COUNT + 1
    /\ report = "Failed"

\* C4: inside the loop size changes only on a full-size receive that matches
\* the bytes sent, and then failCount becomes 0 and size grows by exactly 1;
\* any other receive leaves size unchanged, every send is of the current
\* size, and the first send of a size starts with failCount 0.
C4_SizeAdvance ==
    /\ [][InLoop =>
            /\ size' # size =>
                  /\ RecvStep /\ recvByte' = size /\ size \in echoed'
                  /\ size' = size + 1 /\ failCount' = 0
            /\ (RecvStep /\ recvByte' = size /\ size \in echoed') =>
                  (size' = size + 1 /\ failCount' = 0)
            /\ (RecvStep /\ recvByte' # size) => size' = size
            /\ SendStep => (lastSentSize' = size /\ size' = size)]_vars
    /\ []((pc = "send" /\ lastSentSize # size) => failCount = 0)

\* Size 10 was sent more than once, then echoed: the loop is about to send
\* size 11 with the failure count back at 0.
C4_Witness ==
    /\ pc = "send" /\ size = ECHO_FIRST_SIZE + 1 /\ failCount = 0
    /\ lastSentSize = ECHO_FIRST_SIZE /\ sendsThisSize >= 2
    /\ ECHO_FIRST_SIZE \in echoed

\* C5 as stated: recvBuf is all zeros at the moment of every receive call.
C5_RecvBufZeroAtReceive ==
    pc = "recv" => recvBuf = ZeroBuf

C8_NoUseAfterFree ==
    freeCount <= 1 /\ ~uaf

\* C9: a send that does not transmit exactly size bytes, or a full-size
\* receive that differs from what was sent, makes the loop return false at
\* once, with failCount unchanged and no further send or receive call; the
\* connect is attempted once.
C9_OnlyReceiveRetried ==
    /\ [][/\ (SendStep /\ sentByte' # size) =>
                (pc' = "report" /\ ~result' /\ ~status' /\ failCount' = failCount)
          /\ (RecvStep /\ recvByte' = size /\ size \notin echoed') =>
                (pc' = "report" /\ ~result' /\ ~status' /\ failCount' = failCount)
          /\ AfterLoop => (ioTick' = ioTick /\ nUdpConnect' = nUdpConnect)]_vars
    /\ [](nUdpConnect <= 1)

\* A short send after one retry ended the demo.
C9_Witness ==
    /\ lastOp = "delete" /\ sentByte = size - 1 /\ lastSentSize = size
    /\ report = "Failed" /\ failCount = 1 /\ recvByte <= 0

\* C10: when connect does not succeed no send or receive is made and the
\* demo reports Failed; Pass is reported only after a successful connect and
\* a loop that returned true; the task ends with one disconnect call
\* followed by its deletion, and is never stuck before that.
C10_AbortOnFailure ==
    /\ []((pc \notin {"start", "connect"} /\ ~xNetStatus) =>
             /\ pc \notin {"send", "recv"}
             /\ lastSentSize = 0 /\ ~ioTick
             /\ report \in {"none", "Failed"}
             /\ pc \in {"disconnect", "delete", "deleted"} => report = "Failed")
    /\ [](report = "Pass" => (xNetStatus /\ result /\ status))
    /\ [](pc \in {"delete", "deleted"} => (nDisconnect = 1 /\ report # "none"))
    /\ [](pc # "deleted" => ENABLED NextEcho)
    /\ [][pc' = "deleted" => (pc = "deleted" \/ lastOp = "disconnect")]_vars

\* The connect failed and the task ended without any send.
C10_Witness ==
    /\ pc = "deleted" /\ ~xNetStatus /\ report = "Failed"
    /\ nDisconnect = 1 /\ lastSentSize = 0 /\ nUdpConnect = 1

\* C11 as stated: with every sockets-library call returning, whatever it
\* returns, RunEchoTask eventually reaches its disconnect and task-deletion
\* step.
C11_EchoTerminates ==
    <>(pc = "deleted")

TransferOps == {"sendTo", "recvFrom"}
TransferStep == nCalls' # nCalls /\ tArgs'.op \in TransferOps

\* C12: Plaintext_FreeRTOS_sendTo and Plaintext_FreeRTOS_recvFrom return -1
\* without calling Sockets_Send / Sockets_Recv when the context or its
\* pParams is NULL, the buffer is NULL or the byte count is 0; otherwise
\* they call it exactly once, on the context's socket, and return its result
\* unchanged.
C12_TransferValidation ==
    [][TransferStep =>
          LET a == tArgs'
              sends == nSockSend' - nSockSend
              recvs == nSockRecv' - nSockRecv
          IN  IF a.ctxNull \/ ~pParams \/ a.bufNull \/ a.bytes = 0
              THEN ioRet' = -1 /\ sends = 0 /\ recvs = 0 /\ ~sockCalled'
              ELSE /\ ioRet' = a.ret
                   /\ a.sock = socket
                   /\ sockCalled'
                   /\ sends = (IF a.op = "sendTo" THEN 1 ELSE 0)
                   /\ recvs = (IF a.op = "recvFrom" THEN 1 ELSE 0)]_vars

\* A receive of 0 bytes on a valid context and buffer was refused without
\* reaching the sockets library.
C12_Witness ==
    /\ tArgs.op = "recvFrom" /\ ~tArgs.ctxNull /\ pParams /\ ~tArgs.bufNull
    /\ tArgs.bytes = 0 /\ tArgs.ret = 0
    /\ ioRet = -1 /\ nSockRecv = 0 /\ ~sockCalled

DisconnectStep == nDisconnect' # nDisconnect

\* C13: Plaintext_FreeRTOS_UDP_Disconnect returns INVALID_PARAMETER without
\* calling Sockets_Disconnect when the context is NULL, its pParams is NULL
\* or its socket is SOCKETS_INVALID_SOCKET; otherwise it calls
\* Sockets_Disconnect exactly once on the context's socket and returns
\* SUCCESS; in every case the context and its socket handle are unchanged.
C13_Disconnect ==
    [][DisconnectStep =>
          /\ nDisconnect' = nDisconnect + 1
          /\ socket' = socket /\ pParams' = pParams
          /\ IF tArgs'.ctxNull \/ ~pParams \/ socket = SOCKETS_INVALID_SOCKET
             THEN /\ xPlaintextStatus' = PLAINTEXT_TRANSPORT_INVALID_PARAMETER
                  /\ nSockDisconnect' = nSockDisconnect
                  /\ ~sockCalled'
             ELSE /\ xPlaintextStatus' = PLAINTEXT_TRANSPORT_SUCCESS
                  /\ nSockDisconnect' = nSockDisconnect + 1
                  /\ sockCalled'
                  /\ tArgs'.sock = socket]_vars

\* A disconnect on a valid context whose socket a failed connect left
\* invalid: refused, with the handle still in place.
C13_Witness ==
    /\ tArgs.op = "disconnect" /\ ~tArgs.ctxNull /\ pParams
    /\ socket = SOCKETS_INVALID_SOCKET
    /\ xPlaintextStatus = PLAINTEXT_TRANSPORT_INVALID_PARAMETER
    /\ ~sockCalled /\ nSockDisconnect = 0 /\ nDisconnect = 1

\* C14 as stated: in a run of RunEchoTask, Sockets_Disconnect is called only
\* on the open socket that a successful Sockets_Udp_Connect produced; after
\* a failed connect the zero-initialised handle is not passed to it.
C14_DisconnectOnlyOpened ==
    nSockDisconnect > 0 => (xNetStatus /\ tArgs.sock = OpenSocket)

====
